---- MODULE Spec2Model ----
(***************************************************************************)
(* Model of jazzband/projects/models.py: the Project, ProjectMembership    *)
(* and ProjectUpload tables, the derived properties of Project and         *)
(* ProjectUpload, the uploads_count aggregate and the after_delete hook    *)
(* delete_upload_file.                                                     *)
(*                                                                         *)
(* A path string is modelled as the sequence of its "/"-separated segments *)
(* ("acme/../x" is <<"acme", "..", "x">>, "/etc" is <<"", "etc">>, the     *)
(* empty string is <<"">>); a NULL column value is the empty sequence.     *)
(***************************************************************************)
EXTENDS Integers, Sequences, FiniteSets, TLC

VARIABLES
    projects,      \* projects table: id -> uploads_count (<<>> is NULL, <<n>> is n)
    uploads,       \* project_uploads table, committed rows
    disk,          \* files present on disk (full paths)
    nextId,        \* next value of the project_uploads id sequence
    pc,            \* per session: position inside the unit of work
    op,            \* per session: the statement of the open transaction
    target,        \* per session: the ProjectUpload the statement is about
    written,       \* per session: uploads_count written by the aggregate UPDATE
    done,          \* per session: outcome of the last finished unit of work
    hook,          \* record of the last run of delete_upload_file
    hookRuns,      \* per session: runs of delete_upload_file in the open transaction
    membership,    \* project_memberships table
    active,        \* ids of the users User.active_members() yields
    current_user,  \* flask_login's current_user
    arg,           \* input of the last property evaluation
    ret            \* result of the last property evaluation (<<>>: none yet)

vars == <<projects, uploads, disk, nextId, pc, op, target, written, done, hook,
          hookRuns, membership, active, current_user, arg, ret>>

dbVars == <<projects, uploads, disk, nextId, pc, op, target, written, done, hook,
            hookRuns>>
memberVars == <<membership, active, current_user>>
callVars == <<arg, ret>>

----------------------------------------------------------------------------
(* Bounds *)

MaxSegs == 5
MaxUploads == 2
MaxProjects == 1
MaxUsers == 2
MaxMemberProjects == 2
MaxMemberships == 2

----------------------------------------------------------------------------
(* Values *)

NULL == <<>>

Return(v) == [ok |-> TRUE, err |-> "", val |-> v]
Raise(e) == [ok |-> FALSE, err |-> e, val |-> <<>>]

\* current_app.config["UPLOAD_ROOT"], e.g. /app/uploads
UPLOAD_ROOT == <<"", "app", "uploads">>

PathSegments == {"", ".", "..", "acme", "etc", "passwd"}

RawPaths == UNION {[1..n -> PathSegments] : n \in 1..MaxSegs}

----------------------------------------------------------------------------
(* posixpath.normpath, as safe_join applies it to the stored path *)

\* 0, 1 or 2 leading slashes kept by normpath ("//x" keeps two, "///x" one)
initial_slashes(path) ==
    IF Len(path) > 1 /\ path[1] = ""
    THEN IF Len(path) > 2 /\ path[2] = "" /\ ~(Len(path) > 3 /\ path[3] = "")
         THEN 2 ELSE 1
    ELSE 0

RECURSIVE new_comps(_, _, _)
new_comps(comps, slashes, acc) ==
    IF comps = <<>> THEN acc
    ELSE LET comp == Head(comps)
             rest == Tail(comps)
         IN IF comp \in {"", "."} THEN new_comps(rest, slashes, acc)
            ELSE IF \/ comp # ".."
                    \/ (slashes = 0 /\ acc = <<>>)
                    \/ (acc # <<>> /\ acc[Len(acc)] = "..")
                 THEN new_comps(rest, slashes, Append(acc, comp))
                 ELSE IF acc # <<>>
                      THEN new_comps(rest, slashes, SubSeq(acc, 1, Len(acc) - 1))
                      ELSE new_comps(rest, slashes, acc)

\* the normalised path: [slashes, comps]; comps = <<".">> stands for "."
normpath(path) ==
    LET s == initial_slashes(path)
        c == new_comps(path, s, <<>>)
    IN [slashes |-> s, comps |-> IF s = 0 /\ c = <<>> THEN <<".">> ELSE c]

\* flask.safe_join without the "../" test (a join that is not traversal-safe)
safe_join_unsafe(directory, filename) ==
    IF filename = NULL THEN Raise("TypeError")
    ELSE IF filename = <<"">> THEN Return(directory \o <<"">>)
    ELSE LET n == normpath(filename)
         IN IF n.slashes > 0 THEN Raise("NotFound")
            ELSE Return(directory \o n.comps)

\* flask.safe_join(directory, filename): NotFound when the normalised name is
\* absolute, is ".." or starts with "../"; the empty name is joined as it is
\* (directory + "/"); normpath(None) raises TypeError
safe_join(directory, filename) ==
    IF filename = NULL THEN Raise("TypeError")
    ELSE IF filename = <<"">> THEN Return(directory \o <<"">>)
    ELSE LET n == normpath(filename)
         IN IF n.slashes > 0 \/ n.comps[1] = ".."
            THEN Raise("NotFound")
            ELSE Return(directory \o n.comps)

\* ProjectUpload.full_path
full_path(path) == safe_join(UPLOAD_ROOT, path)

\* the string s + ".asc": the suffix lands on the last segment
AppendAsc(p) == [p EXCEPT ![Len(p)] = @ \o ".asc"]

\* ProjectUpload.signature_path
signature_path(path) ==
    LET fp == full_path(path)
    IN IF fp.ok THEN Return(AppendAsc(fp.val)) ELSE fp

----------------------------------------------------------------------------
(* The project_uploads and projects tables *)

Sessions == {1, 2}

\* a ProjectUpload row; filename and path are nullable, the digests are not
Upload(id, project_id, path, filename, md5, sha256, blake2) ==
    [id |-> id, project_id |-> project_id, path |-> path, filename |-> filename,
     md5_digest |-> md5, sha256_digest |-> sha256, blake2_256_digest |-> blake2]

NoUpload == Upload(0, 0, NULL, NULL, 0, 0, 0)

\* SQL equality of two nullable values: NULL equals nothing
SqlEq(a, b) == a # NULL /\ b # NULL /\ a = b

\* the unique indexes without the one on blake2_256_digest
UniqueViolationNoBlake2(rec, table) ==
    \E r \in table :
        /\ r.id # rec.id
        /\ \/ SqlEq(r.path, rec.path)
           \/ SqlEq(r.filename, rec.filename)
           \/ r.md5_digest = rec.md5_digest
           \/ r.sha256_digest = rec.sha256_digest

\* unique=True on path, filename, md5_digest, sha256_digest, blake2_256_digest:
\* does storing rec collide with another row of the table
UniqueViolation(rec, table) ==
    \E r \in table :
        /\ r.id # rec.id
        /\ \/ SqlEq(r.path, rec.path)
           \/ SqlEq(r.filename, rec.filename)
           \/ r.md5_digest = rec.md5_digest
           \/ r.sha256_digest = rec.sha256_digest
           \/ r.blake2_256_digest = rec.blake2_256_digest

\* the rows session s sees: the committed rows and its own uncommitted statement
Visible(s) ==
    CASE op[s] = "insert" -> uploads \cup {target[s]}
      [] op[s] = "delete" -> uploads \ {target[s]}
      [] op[s] = "update" -> {u \in uploads : u.id # target[s].id} \cup {target[s]}
      [] OTHER -> uploads

\* the aggregate's expression: SELECT count('1') FROM project_uploads
\* WHERE project_uploads.project_id = projects.id
uploads_count(table, p) == Cardinality({u \in table : u.project_id = p})

InFlight(s) == pc[s] # "idle"

\* another session's open transaction holds the row lock of project p
ProjectLocked(s, p) ==
    \E t \in Sessions \ {s} : pc[t] = "flushed" /\ target[t].project_id = p

\* another session's uncommitted statement is on the row with this id, or holds
\* a unique key rec would take: the statement waits
RowBusy(s, rec) ==
    \E t \in Sessions \ {s} :
        /\ InFlight(t)
        /\ \/ target[t].id = rec.id
           \/ op[t] # "delete" /\ UniqueViolation(rec, {target[t]})

Outcome(o, u, e, n) == [op |-> o, id |-> u.id, err |-> e, hooks |-> n]

NoHook == [id |-> 0, session |-> 0, path |-> NULL, sawPrimary |-> FALSE,
           sawSignature |-> FALSE, removed |-> {}, err |-> "",
           rowCommitted |-> FALSE, rowDeleted |-> FALSE, others |-> {}]

----------------------------------------------------------------------------
(* delete_upload_file: the after_delete listener *)

\* the hook that removes the signature without asking whether it exists
delete_upload_file_no_exists(u, d) ==
    LET fp == full_path(u.path)
    IN IF ~fp.ok THEN [err |-> fp.err, disk |-> d]
       ELSE IF fp.val \notin d THEN [err |-> "OSError", disk |-> d]
       ELSE LET d1 == d \ {fp.val}
                sp == signature_path(u.path)
            IN IF sp.val \in d1
               THEN [err |-> "", disk |-> d1 \ {sp.val}]
               ELSE [err |-> "OSError", disk |-> d1]

\* os.remove(target.full_path); if os.path.exists(target.signature_path):
\* os.remove(target.signature_path).  Yields the error raised ("" for none) and
\* the files left on disk.
delete_upload_file(u, d) ==
    LET fp == full_path(u.path)
    IN IF ~fp.ok THEN [err |-> fp.err, disk |-> d]
       ELSE IF fp.val \notin d THEN [err |-> "OSError", disk |-> d]
       ELSE LET d1 == d \ {fp.val}
                sp == signature_path(u.path)
            IN IF sp.val \in d1
               THEN [err |-> "", disk |-> d1 \ {sp.val}]
               ELSE [err |-> "", disk |-> d1]

----------------------------------------------------------------------------
(* Units of work.  A session adds, changes or deletes one ProjectUpload and   *)
(* commits: the flush emits the statement, runs the after_delete listener,    *)
(* then the aggregate's UPDATE of projects.uploads_count; an exception        *)
(* anywhere in the flush rolls the transaction back and reaches the caller.   *)

\* db.session.add(Project(...)); commit.  uploads_count has no default.
CreateProject ==
    /\ Cardinality(DOMAIN projects) < MaxProjects
    /\ projects' = projects @@ ((Cardinality(DOMAIN projects) + 1) :> NULL)
    /\ UNCHANGED <<uploads, disk, nextId, pc, op, target, written, done, hook,
                   hookRuns, memberVars, callVars>>

\* db.session.add(upload); flush: INSERT INTO project_uploads
InsertUpload(s, rec) ==
    /\ pc[s] = "idle"
    /\ nextId <= MaxUploads
    /\ rec.id = nextId
    /\ rec.project_id \in DOMAIN projects
    /\ ~RowBusy(s, rec)
    /\ nextId' = nextId + 1
    /\ IF UniqueViolation(rec, uploads)
       THEN /\ done' = [done EXCEPT ![s] = Outcome("insert", rec, "IntegrityError", 0)]
            /\ UNCHANGED <<pc, op, target>>
       ELSE /\ pc' = [pc EXCEPT ![s] = "after_flush"]
            /\ op' = [op EXCEPT ![s] = "insert"]
            /\ target' = [target EXCEPT ![s] = rec]
            /\ UNCHANGED done
    /\ UNCHANGED <<projects, uploads, disk, written, hook, hookRuns, memberVars,
                   callVars>>

\* a change of the unique columns of a stored upload; flush: UPDATE project_uploads
UpdateUpload(s, old, new) ==
    /\ pc[s] = "idle"
    /\ old \in uploads
    /\ new.id = old.id /\ new.project_id = old.project_id
    /\ new # old
    /\ ~RowBusy(s, new)
    /\ IF UniqueViolation(new, uploads)
       THEN /\ done' = [done EXCEPT ![s] = Outcome("update", new, "IntegrityError", 0)]
            /\ UNCHANGED <<pc, op, target>>
       ELSE /\ pc' = [pc EXCEPT ![s] = "after_flush"]
            /\ op' = [op EXCEPT ![s] = "update"]
            /\ target' = [target EXCEPT ![s] = new]
            /\ UNCHANGED done
    /\ UNCHANGED <<projects, uploads, disk, nextId, written, hook, hookRuns,
                   memberVars, callVars>>

\* a delete whose flush runs no after_delete listener
DeleteUploadNoHook(s, u) ==
    /\ pc[s] = "idle"
    /\ u \in uploads
    /\ ~RowBusy(s, u)
    /\ pc' = [pc EXCEPT ![s] = "after_flush"]
    /\ op' = [op EXCEPT ![s] = "delete"]
    /\ target' = [target EXCEPT ![s] = u]
    /\ UNCHANGED <<projects, uploads, disk, nextId, written, done, hook, hookRuns,
                   memberVars, callVars>>

\* db.session.delete(upload); flush: DELETE FROM project_uploads
DeleteUpload(s, u) ==
    /\ pc[s] = "idle"
    /\ u \in uploads
    /\ ~RowBusy(s, u)
    /\ pc' = [pc EXCEPT ![s] = "after_delete"]
    /\ op' = [op EXCEPT ![s] = "delete"]
    /\ target' = [target EXCEPT ![s] = u]
    /\ UNCHANGED <<projects, uploads, disk, nextId, written, done, hook, hookRuns,
                   memberVars, callVars>>

\* the table after a listener that raised when the delete was committed already
TableAfterHookErrorCommitted(s) == uploads \ {target[s]}

\* the committed table after the listener raised: the flush is aborted and the
\* transaction, the DELETE in it, is rolled back
TableAfterHookError(s) == uploads

\* the after_delete event: delete_upload_file(mapper, connection, target), still
\* inside the flush; what it raises aborts the flush and rolls back
AfterDelete(s) ==
    /\ pc[s] = "after_delete"
    /\ LET u == target[s]
           r == delete_upload_file(u, disk)
           fp == full_path(u.path)
           sp == signature_path(u.path)
       IN /\ disk' = r.disk
          /\ hook' = [id |-> u.id, session |-> s, path |-> u.path,
                      sawPrimary |-> fp.ok /\ fp.val \in disk,
                      sawSignature |-> sp.ok /\ sp.val \in disk,
                      removed |-> disk \ r.disk, err |-> r.err,
                      rowCommitted |-> u \notin uploads,
                      rowDeleted |-> u \notin Visible(s),
                      others |-> {v.path : v \in uploads \ {u}}]
          /\ hookRuns' = [hookRuns EXCEPT ![s] = IF r.err # "" THEN 0 ELSE @ + 1]
          /\ IF r.err # ""
             THEN /\ pc' = [pc EXCEPT ![s] = "idle"]
                  /\ op' = [op EXCEPT ![s] = "none"]
                  /\ target' = [target EXCEPT ![s] = NoUpload]
                  /\ done' = [done EXCEPT ![s] = Outcome("delete", u, r.err, hookRuns[s] + 1)]
                  /\ uploads' = TableAfterHookError(s)
             ELSE /\ pc' = [pc EXCEPT ![s] = "after_flush"]
                  /\ UNCHANGED <<op, target, done, uploads>>
    /\ UNCHANGED <<projects, nextId, written, memberVars, callVars>>

\* the after_flush listener of @aggregated: UPDATE projects SET uploads_count =
\* (SELECT count('1') ...) WHERE projects.id IN (the uploads' project ids),
\* evaluated on the rows the statement sees
AggregateValue(s) == <<uploads_count(Visible(s), target[s].project_id)>>

\* the UPDATE finds the projects row unlocked
UpdateAggregate(s) ==
    /\ pc[s] = "after_flush"
    /\ ~ProjectLocked(s, target[s].project_id)
    /\ written' = [written EXCEPT ![s] = AggregateValue(s)]
    /\ pc' = [pc EXCEPT ![s] = "flushed"]
    /\ UNCHANGED <<projects, uploads, disk, nextId, op, target, done, hook,
                   hookRuns, memberVars, callVars>>

\* the UPDATE has taken its snapshot and waits for the projects row lock
AggregateWait(s) ==
    /\ pc[s] = "after_flush"
    /\ ProjectLocked(s, target[s].project_id)
    /\ written' = [written EXCEPT ![s] = AggregateValue(s)]
    /\ pc' = [pc EXCEPT ![s] = "waiting"]
    /\ UNCHANGED <<projects, uploads, disk, nextId, op, target, done, hook,
                   hookRuns, memberVars, callVars>>

\* the lock holder has ended: the UPDATE goes on with the snapshot it took
AggregateResume(s) ==
    /\ pc[s] = "waiting"
    /\ ~ProjectLocked(s, target[s].project_id)
    /\ pc' = [pc EXCEPT ![s] = "flushed"]
    /\ UNCHANGED <<projects, uploads, disk, nextId, op, target, written, done,
                   hook, hookRuns, memberVars, callVars>>

\* db.session.commit()
Commit(s) ==
    /\ pc[s] = "flushed"
    /\ uploads' = Visible(s)
    /\ projects' = [projects EXCEPT ![target[s].project_id] = written[s]]
    /\ done' = [done EXCEPT ![s] = Outcome(op[s], target[s], "", hookRuns[s])]
    /\ hookRuns' = [hookRuns EXCEPT ![s] = 0]
    /\ pc' = [pc EXCEPT ![s] = "idle"]
    /\ op' = [op EXCEPT ![s] = "none"]
    /\ target' = [target EXCEPT ![s] = NoUpload]
    /\ written' = [written EXCEPT ![s] = NULL]
    /\ UNCHANGED <<disk, nextId, hook, memberVars, callVars>>

----------------------------------------------------------------------------
(* The file system outside the hook: the upload view stores files, and files  *)
(* can be lost                                                                *)

StoredPaths == {<<"f">>, <<"f.asc">>, <<"..", "f">>, NULL}

DiskPaths ==
    {full_path(p).val : p \in {q \in StoredPaths : full_path(q).ok}}
    \cup {signature_path(p).val : p \in {q \in StoredPaths : full_path(q).ok}}

DiskWrite(f) ==
    /\ f \notin disk
    /\ disk' = disk \cup {f}
    /\ UNCHANGED <<projects, uploads, nextId, pc, op, target, written, done, hook,
                   hookRuns, memberVars, callVars>>

DiskLose(f) ==
    /\ f \in disk
    /\ disk' = disk \ {f}
    /\ UNCHANGED <<projects, uploads, nextId, pc, op, target, written, done, hook,
                   hookRuns, memberVars, callVars>>

----------------------------------------------------------------------------
(* Specifications *)

NoOutcome == [op |-> "none", id |-> 0, err |-> "", hooks |-> 0]

InitTables ==
    /\ projects = <<>>
    /\ uploads = {}
    /\ nextId = 1
    /\ pc = [s \in Sessions |-> "idle"]
    /\ op = [s \in Sessions |-> "none"]
    /\ target = [s \in Sessions |-> NoUpload]
    /\ written = [s \in Sessions |-> NULL]
    /\ done = [s \in Sessions |-> NoOutcome]
    /\ hook = NoHook
    /\ hookRuns = [s \in Sessions |-> 0]

InitDb == InitTables /\ disk = {}

InitMembers ==
    /\ membership = {}
    /\ active = {}
    /\ current_user = NULL

InitCall ==
    /\ arg = NULL
    /\ ret = <<>>

Init == InitDb /\ InitMembers /\ InitCall

\* an upload as the upload view stores it: names and digests of its own
NewUpload(p, path) ==
    Upload(nextId, p, path, <<ToString(nextId)>>, nextId, nextId, nextId)

\* one session: every unit of work ends before the next begins
Next ==
    \/ CreateProject
    \/ \E p \in 1..MaxProjects, path \in StoredPaths : InsertUpload(1, NewUpload(p, path))
    \/ \E u \in uploads : DeleteUpload(1, u)
    \/ AfterDelete(1)
    \/ UpdateAggregate(1)
    \/ Commit(1)
    \/ \E f \in DiskPaths : DiskWrite(f)
    \/ \E f \in DiskPaths : DiskLose(f)

Spec == Init /\ [][Next]_vars

\* two sessions: their units of work interleave step by step
NextConc ==
    \/ CreateProject
    \/ \E s \in Sessions, p \in 1..MaxProjects, path \in StoredPaths :
           InsertUpload(s, NewUpload(p, path))
    \/ \E s \in Sessions, u \in uploads : DeleteUpload(s, u)
    \/ \E s \in Sessions : AfterDelete(s)
    \/ \E s \in Sessions : UpdateAggregate(s)
    \/ \E s \in Sessions : AggregateWait(s)
    \/ \E s \in Sessions : AggregateResume(s)
    \/ \E s \in Sessions : Commit(s)

\* the files of the uploads to come are on disk
InitConc == InitTables /\ disk = DiskPaths /\ InitMembers /\ InitCall

SpecConc == InitConc /\ [][NextConc]_vars

----------------------------------------------------------------------------
(* Inserts and updates against the unique indexes, one session *)

\* an upload with names and digests of its own
OwnUpload(id, p) ==
    Upload(id, p, <<"acme", ToString(id)>>, <<ToString(id)>>, id, id, id)

\* the uploads a statement may store under this id: the one with values of its
\* own, and the ones that differ from it in one column, which is NULL (path,
\* filename) or holds a value every upload may be given
AnyUpload(id, p) ==
    LET own == OwnUpload(id, p)
    IN {own,
        [own EXCEPT !.path = NULL],
        [own EXCEPT !.path = <<"acme", "f">>],
        [own EXCEPT !.filename = NULL],
        [own EXCEPT !.filename = <<"f">>],
        [own EXCEPT !.md5_digest = 0],
        [own EXCEPT !.sha256_digest = 0],
        [own EXCEPT !.blake2_256_digest = 0]}

NextUnique ==
    \/ CreateProject
    \/ \E p \in 1..MaxProjects : \E rec \in AnyUpload(nextId, p) : InsertUpload(1, rec)
    \/ \E old \in uploads : \E new \in AnyUpload(old.id, old.project_id) :
           UpdateUpload(1, old, new)
    \/ UpdateAggregate(1)
    \/ Commit(1)

SpecUnique == Init /\ [][NextUnique]_vars

----------------------------------------------------------------------------
(* ProjectUpload.full_path on every stored path *)

InitPath ==
    /\ InitDb /\ InitMembers
    /\ arg \in RawPaths \cup {NULL}
    /\ ret = <<>>

CallFullPath ==
    /\ ret = <<>>
    /\ ret' = <<full_path(arg)>>
    /\ UNCHANGED <<dbVars, memberVars, arg>>

NextPath == CallFullPath

SpecPath == InitPath /\ [][NextPath]_vars

----------------------------------------------------------------------------
(* Project.current_user_is_member, Project.member_ids, Project.leads *)

Users == 1..MaxUsers

\* a ProjectMembership row
Membership(id, user_id, project_id, is_lead) ==
    [id |-> id, user_id |-> user_id, project_id |-> project_id, is_lead |-> is_lead]

\* flask_login's current_user: NULL without one, else the anonymous user
\* (id 0, not authenticated) or a User
Actors ==
    {[id |-> 0, is_authenticated |-> FALSE, is_roadie |-> FALSE]}
    \cup [id : Users, is_authenticated : BOOLEAN, is_roadie : BOOLEAN]

RECURSIVE all(_)
\* Query.all(): the rows as a list (in id order)
all(rows) ==
    IF rows = {} THEN <<>>
    ELSE LET m == CHOOSE r \in rows : \A q \in rows : r.id <= q.id
         IN <<m>> \o all(rows \ {m})

\* self.membership: the membership rows of the project
project_membership(p) == {m \in membership : m.project_id = p}

\* [member.user.id for member in self.membership.all()]
member_ids(p) ==
    LET rows == all(project_membership(p))
    IN [i \in 1..Len(rows) |-> rows[i].user_id]

\* ..auth.current_user_is_roadie()
current_user_is_roadie == current_user.is_roadie

InList(x, list) == \E i \in 1..Len(list) : list[i] = x

\* the property without its roadie branch
current_user_is_member_no_roadie(p) ==
    IF current_user = NULL THEN FALSE
    ELSE IF ~current_user.is_authenticated THEN FALSE
    ELSE InList(current_user.id, member_ids(p))

\* Project.current_user_is_member
current_user_is_member(p) ==
    IF current_user = NULL THEN FALSE
    ELSE IF ~current_user.is_authenticated THEN FALSE
    ELSE IF current_user_is_roadie THEN TRUE
    ELSE InList(current_user.id, member_ids(p))

\* the query without its filter on User.active_members()
leads_any_lead(p) ==
    LET rows == all({m \in project_membership(p) : m.is_lead = TRUE})
    IN [i \in 1..Len(rows) |-> rows[i].user_id]

\* Project.leads: the users of the project's membership rows with is_lead true
\* and user_id among User.active_members()
leads(p) ==
    LET rows == all({m \in project_membership(p) :
                        m.is_lead = TRUE /\ m.user_id \in active})
    IN [i \in 1..Len(rows) |-> rows[i].user_id]

AddMembership(id, u, p, lead) ==
    /\ Cardinality(membership) < MaxMemberships
    /\ \A m \in membership : m.id # id
    /\ membership' = membership \cup {Membership(id, u, p, lead)}
    /\ arg' = NULL /\ ret' = <<>>
    /\ UNCHANGED <<dbVars, active, current_user>>

RemoveMembership(m) ==
    /\ m \in membership
    /\ membership' = membership \ {m}
    /\ arg' = NULL /\ ret' = <<>>
    /\ UNCHANGED <<dbVars, active, current_user>>

\* a user joins or leaves the set User.active_members() yields
SetActive(u, on) ==
    /\ (u \in active) # on
    /\ active' = IF on THEN active \cup {u} ELSE active \ {u}
    /\ arg' = NULL /\ ret' = <<>>
    /\ UNCHANGED <<dbVars, membership, current_user>>

\* the request's actor changes (login, logout, another request)
SetCurrentUser(a) ==
    /\ current_user # a
    /\ current_user' = a
    /\ arg' = NULL /\ ret' = <<>>
    /\ UNCHANGED <<dbVars, membership, active>>

CallCurrentUserIsMember(p) ==
    /\ ret = <<>>
    /\ arg' = <<"current_user_is_member", p>>
    /\ ret' = <<current_user_is_member(p), member_ids(p)>>
    /\ UNCHANGED <<dbVars, memberVars>>

CallLeads(p) ==
    /\ ret = <<>>
    /\ arg' = <<"leads", p>>
    /\ ret' = <<leads(p)>>
    /\ UNCHANGED <<dbVars, memberVars>>

MemberProjects == 1..MaxMemberProjects

\* memberships and actors change; current_user_is_member is read
NextMember ==
    \/ \E id \in 1..MaxMemberships, u \in Users, p \in MemberProjects, lead \in BOOLEAN :
           AddMembership(id, u, p, lead)
    \/ \E m \in membership : RemoveMembership(m)
    \/ \E a \in Actors \cup {NULL} : SetCurrentUser(a)
    \/ \E p \in MemberProjects : CallCurrentUserIsMember(p)

SpecMember == Init /\ [][NextMember]_vars

\* memberships and the active members change; leads is read
NextLeads ==
    \/ \E id \in 1..MaxMemberships, u \in Users, p \in MemberProjects, lead \in BOOLEAN :
           AddMembership(id, u, p, lead)
    \/ \E m \in membership : RemoveMembership(m)
    \/ \E u \in Users, on \in BOOLEAN : SetActive(u, on)
    \/ \E p \in MemberProjects : CallLeads(p)

SpecLeads == Init /\ [][NextLeads]_vars

----------------------------------------------------------------------------
(* Claims on the uploads_count aggregate *)

Idle == \A s \in Sessions : pc[s] = "idle"

UploadIds == {u.id : u \in uploads}

\* C1: with no transaction open, every project's uploads_count is the number
\* of upload rows of that project, a project that never had an upload included
C1_UploadsCountIsLiveCount ==
    Idle => \A p \in DOMAIN projects : projects[p] = <<uploads_count(uploads, p)>>

\* C2: once the concurrent transactions on a project's uploads have all
\* committed, the uploads_count they wrote is the number of its upload rows
C2_ConcurrentCountConverges ==
    Idle => \A p \in DOMAIN projects :
                projects[p] # NULL => projects[p] = <<uploads_count(uploads, p)>>

----------------------------------------------------------------------------
(* Claims on the deletion hook *)

\* C3: a delete whose hook raised the file system error for a missing primary
\* file has ended with that error at the caller and with the row removed
C3_FailedDeleteLeavesRowRemoved ==
    \A s \in Sessions :
        (pc[s] = "idle" /\ done[s].op = "delete" /\ done[s].err = "OSError")
            => done[s].id \notin UploadIds

\* C3, as the code has it: a delete whose hook raised the file system error
\* for a missing primary file has ended with that error at the caller after
\* one hook run that removed nothing, and rolled back: the row is in the table
C3_FailedDeleteRollsBack ==
    \A s \in Sessions :
        (pc[s] = "idle" /\ done[s].op = "delete" /\ done[s].err = "OSError")
            => /\ done[s].id \in UploadIds
               /\ done[s].hooks = 1
               /\ (hook.session = s /\ hook.id = done[s].id)
                     => (hook.err = "OSError" /\ ~hook.sawPrimary /\ hook.removed = {})

\* C3 witness: the delete of a stored upload has ended with the file system
\* error of its hook, which found no primary file
C3_Witness ==
    /\ pc[1] = "idle"
    /\ done[1].op = "delete" /\ done[1].err = "OSError"
    /\ hook.id = done[1].id /\ hook.err = "OSError" /\ ~hook.sawPrimary
    /\ full_path(hook.path).ok

\* C4: a hook run that found the primary file raised nothing and left neither
\* the primary nor the signature file on disk, and the delete it belongs to is
\* still on its way to the commit or has ended without error with the row gone
C4_DeleteWithPrimarySucceeds ==
    (hook.id # 0 /\ hook.sawPrimary) =>
        /\ hook.err = ""
        /\ full_path(hook.path).val \in hook.removed
        /\ hook.sawSignature => signature_path(hook.path).val \in hook.removed
        /\ \/ /\ InFlight(hook.session)
              /\ op[hook.session] = "delete"
              /\ target[hook.session].id = hook.id
           \/ /\ hook.id \notin UploadIds
              /\ done[hook.session].id = hook.id => done[hook.session].err = ""

\* C4 witness: a committed delete whose hook found the primary file and no
\* signature file
C4_Witness ==
    /\ hook.id # 0 /\ hook.sawPrimary /\ ~hook.sawSignature
    /\ done[hook.session] = Outcome("delete", [id |-> hook.id], "", 1)
    /\ pc[hook.session] = "idle"

\* C5: every hook run came after the commit of its row's delete, a delete that
\* ended rolled back had no file removed, and a committed delete had exactly
\* one hook run
C5_HookOncePerCommittedDelete ==
    /\ hook.id # 0 => hook.rowCommitted
    /\ \A s \in Sessions :
           (hook.session = s /\ done[s].op = "delete" /\ done[s].id = hook.id
            /\ done[s].err # "") => hook.removed = {}
    /\ \A s \in Sessions :
           (done[s].op = "delete" /\ done[s].err = "") => done[s].hooks = 1

\* C5, as the code has it: every hook run came inside the flush, after the
\* DELETE of its row in the open transaction and before the commit; a delete
\* whose hook raised is rolled back; a committed delete had exactly one hook run
C5_HookOncePerFlushedDelete ==
    /\ hook.id # 0 => (hook.rowDeleted /\ ~hook.rowCommitted)
    /\ \A s \in Sessions :
           (pc[s] = "idle" /\ done[s].op = "delete" /\ done[s].err # "")
               => (done[s].id \in UploadIds /\ done[s].hooks = 1)
    /\ \A s \in Sessions :
           (done[s].op = "delete" /\ done[s].err = "") => done[s].hooks = 1

\* C5 witness: a committed delete, whose one hook run came before the commit
C5_Witness ==
    /\ pc[1] = "idle"
    /\ done[1].op = "delete" /\ done[1].err = "" /\ done[1].hooks = 1
    /\ hook.id = done[1].id /\ hook.rowDeleted /\ ~hook.rowCommitted
    /\ done[1].id \notin UploadIds

\* C10: a hook run removed no primary file of another upload of the table
C10_HookKeepsOtherPrimaries ==
    hook.id # 0 =>
        \A q \in hook.others :
            full_path(q).ok => full_path(q).val \notin hook.removed

----------------------------------------------------------------------------
(* Claims on ProjectUpload *)

RECURSIVE Resolve(_, _)
\* the place a path names: "" and "." stay, ".." goes up and stops at "/"
Resolve(p, acc) ==
    IF p = <<>> THEN acc
    ELSE IF Head(p) \in {"", "."} THEN Resolve(Tail(p), acc)
    ELSE IF Head(p) = ".."
         THEN Resolve(Tail(p), IF acc = <<>> THEN acc ELSE SubSeq(acc, 1, Len(acc) - 1))
         ELSE Resolve(Tail(p), Append(acc, Head(p)))

IsPrefix(a, b) == Len(a) <= Len(b) /\ SubSeq(b, 1, Len(a)) = a

InsideRoot(p) == IsPrefix(Resolve(UPLOAD_ROOT, <<>>), Resolve(p, <<>>))

TraversalExample == <<"acme", "..", "..", "etc", "passwd">>

\* C8: full_path returns the place of root "/" path, which lies inside the
\* upload root, or fails; on acme/../../etc/passwd it fails
C8_FullPathInsideRootOrFails ==
    ret # <<>> =>
        /\ ret[1].ok =>
              /\ InsideRoot(ret[1].val)
              /\ Resolve(ret[1].val, <<>>) = Resolve(UPLOAD_ROOT \o arg, <<>>)
        /\ arg = TraversalExample => ~ret[1].ok

\* C8 witness: full_path has failed on acme/../../etc/passwd
C8_Witness == arg = TraversalExample /\ ret # <<>> /\ ~ret[1].ok

\* second witness of C8's other case: a path with ".." inside that stays in the root
C8_WitnessInside ==
    arg = <<"acme", "..", "etc">> /\ ret # <<>> /\ ret[1].ok

SharedKey(u, v) ==
    \/ SqlEq(u.path, v.path)
    \/ SqlEq(u.filename, v.filename)
    \/ u.md5_digest = v.md5_digest
    \/ u.sha256_digest = v.sha256_digest
    \/ u.blake2_256_digest = v.blake2_256_digest

NoSharedKeys == \A u \in uploads : \A v \in uploads \ {u} : u.id # v.id /\ ~SharedKey(u, v)

Rejected ==
    \E s \in Sessions : done'[s] # done[s] /\ done'[s].err = "IntegrityError"

\* C9: no two upload rows share a path, a filename or a digest, and a statement
\* ended by the constraint violation leaves the table as it was
C9_UniqueColumns == []NoSharedKeys /\ [][Rejected => uploads' = uploads]_vars

\* C9 witness: with two rows stored, an insert or update was rejected
C9_Witness ==
    /\ Cardinality(uploads) = 2
    /\ done[1].err = "IntegrityError"
    /\ pc[1] = "idle"

----------------------------------------------------------------------------
(* Claims on Project *)

Elements(list) == {list[i] : i \in 1..Len(list)}

MemberUserIds(p) == {m.user_id : m \in {r \in membership : r.project_id = p}}

C7_LeadsAreActiveLeads ==
    (ret # <<>> /\ arg[1] = "leads") =>
        Elements(ret[1]) =
            {u \in Users : /\ u \in active
                           /\ \E m \in membership :
                                  m.project_id = arg[2] /\ m.user_id = u /\ m.is_lead}

\* C7 witness: a lead who is no active member is left out of a result that
\* holds the project's active lead
C7_Witness ==
    /\ ret # <<>> /\ arg[1] = "leads" /\ arg[2] = 1
    /\ Membership(1, 1, 1, TRUE) \in membership
    /\ Membership(2, 2, 1, TRUE) \in membership
    /\ active = {1}
    /\ ret[1] = <<1>>

====
